---- MODULE Spec2Model ----
(***************************************************************************)
(* tappp.hpp: a header-only TAP producer.  A TAP::Context holds the test   *)
(* plan, the test numbering, the pending 'TODO' directive and two flags,   *)
(* and prints TAP lines to its output device.  The model keeps the state   *)
(* of the global Context TAPP and the lines written to its output device.  *)
(* Every method of Context is an operator from a Context (and the call's   *)
(* arguments) to the outcome of the call: the Context afterwards, the      *)
(* lines printed, the exception thrown (if any) and the value returned.    *)
(* A line is the sequence of the pieces sent to the stream before endl.    *)
(* Subtests, the predicate and pattern assertions and the assertions that  *)
(* capture exceptions are modelled from the specification of the library:  *)
(* a subtest is a child Context that becomes the active one, prints with   *)
(* one more unit of indentation and, when it completes, records one        *)
(* assertion on the Context it was derived from.                           *)
(***************************************************************************)
EXTENDS Integers, Sequences, FiniteSets, TLC

\* Largest argument of plan(tests) and of the Context(tests) constructor.
MaxTests == 2
\* Largest value the run counter may reach (far below the wrap of its
\* unsigned int).
MaxRun == 2
\* Largest argument of SKIP(how_many, reason).
MaxSkip == 2
\* Largest number of lines on the output device.
MaxOut == 3
\* Largest nesting depth of subtests.
MaxDepth == 1
\* Largest number of lines on the output device of a program with subtests.
MaxSubOut == 4

\* Test descriptions, directive reasons and compared values used by callers.
Messages == {"", "m"}
Reasons == {"", "r"}
Gots == {1}
Expecteds == {1, 2}

\* Descriptions of subtests, and what the action given to lives / throws /
\* throws_like does: return, raise an error of kind E, raise another error.
SubtestMessages == {"s"}
Outcomes == {"returns", "raises E", "raises other"}

VARIABLES
    TAPP,   \* the active Context: planned, run, good, todo, have_plan, finished
    out,    \* the output device: the sequence of lines printed so far
    parents \* the Contexts the active one is nested in, outermost first: for
            \* each the Context itself, the description of the subtest derived
            \* from it, and whether that subtest has yet to record its summary

vars == <<TAPP, out, parents>>

----------------------------------------------------------------------------
\* The exceptions of namespace TAP::X ("none": the call returned normally).
Exceptions == {"Planned", "Finished", "LatePlan"}

\* std::to_string / operator<< on an unsigned int.
to_string(x) == ToString(x)

\* The default member initializers of class Context.
Context == [planned |-> 0, run |-> 0, good |-> 0, todo |-> "",
            have_plan |-> FALSE, finished |-> FALSE]

\* A call that returns normally: the Context afterwards, the lines printed
\* and the value returned (<<>> for a void method).
Return(c, lines, ret) == [ctx |-> c, lines |-> lines, err |-> "none", ret |-> ret]

\* A call that throws before it printed or changed anything.
Throw(c, e) == [ctx |-> c, lines |-> <<>>, err |-> e, ret |-> <<>>]

\* One call r1 followed by what the caller does next (r2, computed from
\* r1.ctx): the lines of both are on the device, and the value is r2's.
Then(r1, r2) == [r2 EXCEPT !.lines = r1.lines \o r2.lines]

----------------------------------------------------------------------------
\* void plan(unsigned int tests)
plan(c, tests) ==
    IF c.have_plan THEN Throw(c, "Planned")
    ELSE IF c.finished THEN Throw(c, "Finished")
    ELSE IF c.run > 0 THEN Throw(c, "LatePlan")
    ELSE Return([c EXCEPT !.planned = tests, !.have_plan = TRUE],
                << <<"1..", to_string(tests)>> >>, <<>>)

\* plan(skip, reason) as it would be without finished = true.
plan_skip_all_stays_open(c, reason) ==
    Return(c,
           << <<"1..0">> \o (IF reason # "" THEN <<" # SKIP ", reason>> ELSE <<>>) >>,
           <<>>)

\* plan(skip, reason) as it would be if finished were set to whether a
\* reason was given.
plan_skip_all_finishes_on_reason(c, reason) ==
    Return([c EXCEPT !.finished = (reason # "")],
           << <<"1..0">> \o (IF reason # "" THEN <<" # SKIP ", reason>> ELSE <<>>) >>,
           <<>>)

\* void plan(const skip_all& skip, const std::string& reason)
plan_skip_all(c, reason) ==
    Return([c EXCEPT !.finished = TRUE],
           << <<"1..0">> \o (IF reason # "" THEN <<" # SKIP ", reason>> ELSE <<>>) >>,
           <<>>)

\* summary() as it would be if it compared good with run whatever the plan.
summary_ignores_plan(c) == c.good = c.run

\* bool summary(void)
summary(c) == c.good = (IF c.have_plan THEN c.planned ELSE c.run)

\* diag() as it would be if it used up the pending TODO directive.
diag_consumes_todo(c, message) ==
    Return([c EXCEPT !.todo = ""], << <<"# ", message>> >>, <<>>)

\* void diag(const std::string& message)
diag(c, message) == Return(c, << <<"# ", message>> >>, <<>>)

\* done_testing() as it would be if the trailing count line printed planned
\* instead of run.
done_testing_prints_planned(c) ==
    IF c.finished THEN Throw(c, "Finished")
    ELSE LET r == IF ~c.have_plan
                  THEN Return(c, << <<"1..", to_string(c.planned)>> >>, <<>>)
                  ELSE IF c.planned # c.run
                  THEN diag(c, "Looks like you planned " \o to_string(c.planned)
                               \o " tests but ran " \o to_string(c.run))
                  ELSE Return(c, <<>>, <<>>)
         IN  Return([r.ctx EXCEPT !.finished = TRUE], r.lines, <<>>)

\* done_testing() as it would be if it left the session open.
done_testing_stays_open(c) ==
    IF c.finished THEN Throw(c, "Finished")
    ELSE IF ~c.have_plan
    THEN Return(c, << <<"1..", to_string(c.run)>> >>, <<>>)
    ELSE IF c.planned # c.run
    THEN diag(c, "Looks like you planned " \o to_string(c.planned)
                 \o " tests but ran " \o to_string(c.run))
    ELSE Return(c, <<>>, <<>>)

\* done_testing() as it would be if it compared planned with good.
done_testing_compares_good(c) ==
    IF c.finished THEN Throw(c, "Finished")
    ELSE LET r == IF ~c.have_plan
                  THEN Return(c, << <<"1..", to_string(c.run)>> >>, <<>>)
                  ELSE IF c.planned # c.good
                  THEN diag(c, "Looks like you planned " \o to_string(c.planned)
                               \o " tests but ran " \o to_string(c.run))
                  ELSE Return(c, <<>>, <<>>)
         IN  Return([r.ctx EXCEPT !.finished = TRUE], r.lines, <<>>)

\* void done_testing(void)
done_testing(c) ==
    IF c.finished THEN Throw(c, "Finished")
    ELSE LET r == IF ~c.have_plan
                  THEN Return(c, << <<"1..", to_string(c.run)>> >>, <<>>)
                  ELSE IF c.planned # c.run
                  THEN diag(c, "Looks like you planned " \o to_string(c.planned)
                               \o " tests but ran " \o to_string(c.run))
                  ELSE Return(c, <<>>, <<>>)
         IN  Return([r.ctx EXCEPT !.finished = TRUE], r.lines, <<>>)

\* ok() as it would be if a failed assertion raised an error.
ok_throws_on_failure(c, is_ok, message) ==
    IF c.finished \/ ~is_ok THEN Throw(c, "Finished")
    ELSE LET run1 == c.run + 1
             head == <<"ok ", to_string(run1), " - ", message>>
             dir  == IF c.todo # ""
                     THEN <<(IF message = "" THEN "" ELSE " "), "# TODO ", c.todo>>
                     ELSE <<>>
         IN  Return([c EXCEPT !.run = run1, !.todo = "", !.good = @ + 1],
                    << head \o dir >>, <<is_ok>>)

\* ok() as it would be if it incremented good whatever is_ok.
ok_counts_every_test_good(c, is_ok, message) ==
    IF c.finished THEN Throw(c, "Finished")
    ELSE LET run1 == c.run + 1
             head == <<(IF is_ok THEN "ok " ELSE "not ok "), to_string(run1),
                       " - ", message>>
             dir  == IF c.todo # ""
                     THEN <<(IF message = "" THEN "" ELSE " "), "# TODO ", c.todo>>
                     ELSE <<>>
         IN  Return([c EXCEPT !.run = run1, !.todo = "", !.good = @ + 1],
                    << head \o dir >>, <<is_ok>>)

\* ok() as it would be without todo.clear().
ok_keeps_todo(c, is_ok, message) ==
    IF c.finished THEN Throw(c, "Finished")
    ELSE LET run1 == c.run + 1
             head == <<(IF is_ok THEN "ok " ELSE "not ok "), to_string(run1),
                       " - ", message>>
             dir  == IF c.todo # ""
                     THEN <<(IF message = "" THEN "" ELSE " "), "# TODO ", c.todo>>
                     ELSE <<>>
         IN  Return([c EXCEPT !.run = run1,
                              !.good = IF is_ok THEN @ + 1 ELSE @],
                    << head \o dir >>, <<is_ok>>)

\* ok() as it would be if it printed the next number without storing it.
ok_keeps_run(c, is_ok, message) ==
    IF c.finished THEN Throw(c, "Finished")
    ELSE LET head == <<(IF is_ok THEN "ok " ELSE "not ok "), to_string(c.run + 1),
                       " - ", message>>
             dir  == IF c.todo # ""
                     THEN <<(IF message = "" THEN "" ELSE " "), "# TODO ", c.todo>>
                     ELSE <<>>
         IN  Return([c EXCEPT !.todo = "", !.good = IF is_ok THEN @ + 1 ELSE @],
                    << head \o dir >>, <<is_ok>>)

\* ok() as it would be if it printed the number before incrementing it.
ok_prints_old_run(c, is_ok, message) ==
    IF c.finished THEN Throw(c, "Finished")
    ELSE LET head == <<(IF is_ok THEN "ok " ELSE "not ok "), to_string(c.run),
                       " - ", message>>
             dir  == IF c.todo # ""
                     THEN <<(IF message = "" THEN "" ELSE " "), "# TODO ", c.todo>>
                     ELSE <<>>
         IN  Return([c EXCEPT !.run = @ + 1, !.todo = "",
                              !.good = IF is_ok THEN @ + 1 ELSE @],
                    << head \o dir >>, <<is_ok>>)

\* ok() as it would be if it looked at finished only after printing the line.
ok_checks_finished_last(c, is_ok, message) ==
    LET run1 == c.run + 1
        head == <<(IF is_ok THEN "ok " ELSE "not ok "), to_string(run1),
                  " - ", message>>
        dir  == IF c.todo # ""
                THEN <<(IF message = "" THEN "" ELSE " "), "# TODO ", c.todo>>
                ELSE <<>>
        r    == Return([c EXCEPT !.run = run1, !.todo = "",
                                 !.good = IF is_ok THEN @ + 1 ELSE @],
                       << head \o dir >>, <<is_ok>>)
    IN  IF c.finished THEN [r EXCEPT !.err = "Finished", !.ret = <<>>] ELSE r

\* bool ok(bool is_ok, const std::string& message)
ok(c, is_ok, message) ==
    IF c.finished THEN Throw(c, "Finished")
    ELSE LET run1 == c.run + 1
             head == <<(IF is_ok THEN "ok " ELSE "not ok "), to_string(run1),
                       " - ", message>>
             dir  == IF c.todo # ""
                     THEN <<(IF message = "" THEN "" ELSE " "), "# TODO ", c.todo>>
                     ELSE <<>>
         IN  Return([c EXCEPT !.run = run1, !.todo = "",
                              !.good = IF is_ok THEN @ + 1 ELSE @],
                    << head \o dir >>, <<is_ok>>)

\* bool nok(bool is_nok, const std::string& message)
nok(c, is_nok, message) == ok(c, ~is_nok, message)

\* bool pass(const std::string& message)
pass(c, message) == ok(c, TRUE, message)

\* bool fail(const std::string& message)
fail(c, message) == ok(c, FALSE, message)

\* TODO() as it would be if an empty reason left the pending mark alone.
TODO_ignores_empty(c, reason) ==
    IF c.finished THEN Throw(c, "Finished")
    ELSE Return([c EXCEPT !.todo = IF reason = "" THEN @ ELSE reason], <<>>, <<>>)

\* void TODO(const std::string& reason)
TODO(c, reason) ==
    IF c.finished THEN Throw(c, "Finished")
    ELSE Return([c EXCEPT !.todo = reason], <<>>, <<>>)

\* void SKIP(const std::string& reason)
SKIP(c, reason) ==
    LET r == pass(c, "# SKIP" \o (IF reason = "" THEN "" ELSE " ") \o reason)
    IN  [r EXCEPT !.ret = <<>>]

\* current_of as it would be if it counted from 0.
current_of_from_zero(cur, how_many, reason) ==
    (IF reason = "" THEN "" ELSE " ") \o to_string(cur) \o "/" \o to_string(how_many)

\* The lambda current_of of SKIP(how_many, reason).
current_of(cur, how_many, reason) ==
    (IF reason = "" THEN "" ELSE " ") \o to_string(1 + cur) \o "/" \o to_string(how_many)

\* The loop of SKIP(how_many, reason) from index i on.
RECURSIVE SKIP_loop(_, _, _, _)
SKIP_loop(c, i, how_many, reason) ==
    IF i >= how_many THEN Return(c, <<>>, <<>>)
    ELSE LET r == SKIP(c, reason \o current_of(i, how_many, reason))
         IN  IF r.err # "none" THEN r
             ELSE Then(r, SKIP_loop(r.ctx, i + 1, how_many, reason))

\* void SKIP(unsigned int how_many, const std::string& reason)
SKIP_many(c, how_many, reason) == SKIP_loop(c, 0, how_many, reason)

\* BAIL() as it would be without finished = true.
BAIL_stays_open(c, reason) ==
    IF c.finished THEN Throw(c, "Finished")
    ELSE Return(c,
                << <<"Bail out!">> \o (IF reason # "" THEN <<" ", reason>> ELSE <<>>) >>,
                <<>>)

\* void BAIL(const std::string& reason)
BAIL(c, reason) ==
    IF c.finished THEN Throw(c, "Finished")
    ELSE Return([c EXCEPT !.finished = TRUE],
                << <<"Bail out!">> \o (IF reason # "" THEN <<" ", reason>> ELSE <<>>) >>,
                <<>>)

\* The diagnostics of a failed is / isnt: stringT and stringU are
\* Occult::Stringifiable<T>::value and Occult::Stringifiable<U>::value.
RECURSIVE diags(_, _)
diags(c, texts) ==
    IF texts = <<>> THEN Return(c, <<>>, <<>>)
    ELSE Then(diag(c, Head(texts)), diags(c, Tail(texts)))

\* is() as it would be if a value that cannot be stringified failed the test.
is_needs_stringifiable(c, got, expected, message, stringT, stringU) ==
    LET r == ok(c, got = expected /\ stringT /\ stringU, message)
    IN  IF r.err # "none" \/ r.ret = <<TRUE>> THEN r
        ELSE LET d == diags(r.ctx,
                        (IF message # "" THEN <<"Test '" \o message \o "' failed:">> ELSE <<>>)
                        \o (IF stringT THEN <<"       Got: " \o to_string(got)>> ELSE <<>>)
                        \o (IF stringU THEN <<"  Expected: " \o to_string(expected)>> ELSE <<>>))
             IN  [Then(r, d) EXCEPT !.ret = r.ret]

\* bool is(const T& got, const U& expected, const std::string& message, Matcher m)
\* with the default matcher std::equal_to<T>.
is(c, got, expected, message, stringT, stringU) ==
    LET r == ok(c, got = expected, message)
    IN  IF r.err # "none" \/ r.ret = <<TRUE>> THEN r
        ELSE LET d == diags(r.ctx,
                        (IF message # "" THEN <<"Test '" \o message \o "' failed:">> ELSE <<>>)
                        \o (IF stringT THEN <<"       Got: " \o to_string(got)>> ELSE <<>>)
                        \o (IF stringU THEN <<"  Expected: " \o to_string(expected)>> ELSE <<>>))
             IN  [Then(r, d) EXCEPT !.ret = r.ret]

\* bool isnt(const T& got, const U& unexpected, const std::string& message, Matcher m)
isnt(c, got, unexpected, message, stringT, stringU) ==
    LET r == nok(c, got = unexpected, message)
    IN  IF r.err # "none" \/ r.ret = <<TRUE>> THEN r
        ELSE LET d == diags(r.ctx,
                        (IF message # "" THEN <<"Test '" \o message \o "' failed:">> ELSE <<>>)
                        \o (IF stringT THEN <<"         Got: " \o to_string(got)>> ELSE <<>>)
                        \o (IF stringU THEN <<"  Unexpected: " \o to_string(unexpected)>> ELSE <<>>))
             IN  [Then(r, d) EXCEPT !.ret = r.ret]

----------------------------------------------------------------------------
\* The three constructors of Context: Context(out), Context(tests, out) and
\* Context(skip, reason, out).
Init ==
    \E r \in {Return(Context, <<>>, <<>>)}
             \cup {plan(Context, n) : n \in 0..MaxTests}
             \cup {plan_skip_all(Context, s) : s \in Reasons} :
        /\ TAPP = r.ctx
        /\ out = r.lines
        /\ parents = <<>>

\* A call on TAPP through the procedural interface, with outcome r: TAPP is
\* left as the call leaves it and the lines it printed are on the device.
\* An exception leaves the caller; a return value goes to the caller.  The
\* counter and the device are kept within the bounds of the model.
Call(r) ==
    /\ r.ctx.run <= MaxRun
    /\ Len(out) + Len(r.lines) <= MaxOut
    /\ TAPP' = r.ctx
    /\ out' = out \o r.lines
    /\ UNCHANGED parents

Call_plan == \E n \in 0..MaxTests : Call(plan(TAPP, n))

Call_plan_skip_all == \E s \in Reasons : Call(plan_skip_all(TAPP, s))

Call_summary == Call(Return(TAPP, <<>>, <<summary(TAPP)>>))

Call_done_testing == Call(done_testing(TAPP))

Call_ok == \E b \in BOOLEAN, m \in Messages : Call(ok(TAPP, b, m))

Call_nok == \E b \in BOOLEAN, m \in Messages : Call(nok(TAPP, b, m))

Call_pass == \E m \in Messages : Call(pass(TAPP, m))

Call_fail == \E m \in Messages : Call(fail(TAPP, m))

Call_TODO == \E s \in Reasons : Call(TODO(TAPP, s))

Call_SKIP == \E s \in Reasons : Call(SKIP(TAPP, s))

Call_SKIP_many ==
    \E n \in 0..MaxSkip, s \in Reasons : Call(SKIP_many(TAPP, n, s))

Call_BAIL == \E s \in Reasons : Call(BAIL(TAPP, s))

Call_diag == \E m \in Messages : Call(diag(TAPP, m))

Call_is ==
    \E g \in Gots, e \in Expecteds, m \in Messages, st \in BOOLEAN, su \in BOOLEAN :
        Call(is(TAPP, g, e, m, st, su))

Call_isnt ==
    \E g \in Gots, e \in Expecteds, m \in Messages, st \in BOOLEAN, su \in BOOLEAN :
        Call(isnt(TAPP, g, e, m, st, su))

Next ==
    \/ Call_plan
    \/ Call_plan_skip_all
    \/ Call_summary
    \/ Call_done_testing
    \/ Call_ok
    \/ Call_nok
    \/ Call_pass
    \/ Call_fail
    \/ Call_TODO
    \/ Call_SKIP
    \/ Call_SKIP_many
    \/ Call_BAIL
    \/ Call_diag
    \/ Call_is
    \/ Call_isnt

Spec == Init /\ [][Next]_vars

----------------------------------------------------------------------------
\* Predicate and pattern assertions: matches is what the predicate (or the
\* pattern matcher) answers for the value.

\* bool like(const T& got, Predicate<T> p, const std::string& message)
like(c, matches, message) == ok(c, matches, message)

\* bool unlike(const T& got, Predicate<T> p, const std::string& message)
unlike(c, matches, message) == nok(c, matches, message)

\* Assertions that capture exceptions: outcome is what the action does, and
\* described whether the description of the error it raised satisfies the
\* predicate or pattern.

\* bool lives(std::function<void(void)> f, const std::string& message)
lives(c, outcome, message) == ok(c, outcome = "returns", message)

\* The reason a throws / throws_like assertion failed, in the order in which
\* the cases are tried.  The wording of the third reason is not fixed by the
\* description of the method; only that a diagnostic names the cause.
FailureReason(outcome, described) ==
    IF outcome = "returns" THEN "expected an error"
    ELSE IF outcome # "raises E" THEN "different error kind occurred"
    ELSE "error description did not match"

\* throws_like() as it would be if any error raised by f counted as one of
\* kind E.
throws_like_any_kind(c, outcome, described, message) ==
    LET r == ok(c, outcome # "returns" /\ described, message)
    IN  IF r.err # "none" \/ r.ret = <<TRUE>> THEN r
        ELSE [Then(r, diag(r.ctx, FailureReason(outcome, described)))
                EXCEPT !.ret = r.ret]

\* bool throws_like<E>(f, p, message): the error raised by f is caught, never
\* passed on to the caller.
throws_like(c, outcome, described, message) ==
    LET r == ok(c, outcome = "raises E" /\ described, message)
    IN  IF r.err # "none" \/ r.ret = <<TRUE>> THEN r
        ELSE [Then(r, diag(r.ctx, FailureReason(outcome, described)))
                EXCEPT !.ret = r.ret]

\* bool throws<E>(f, message): throws_like with no check of the description.
throws(c, outcome, message) == throws_like(c, outcome, TRUE, message)

----------------------------------------------------------------------------
\* Subtests.  A line printed by a Context nested in d others starts with d
\* units of indentation.
IndentUnit == "    "

RECURSIVE Indentation(_)
Indentation(d) == IF d = 0 THEN <<>> ELSE <<IndentUnit>> \o Indentation(d - 1)

\* Indent() as it would be if a subtest printed its lines unindented.
Indent_none(d, lines) == lines

Indent(d, lines) == [i \in DOMAIN lines |-> Indentation(d) \o lines[i]]

\* Context* subtest(const std::string& message): the child Context.
subtest(message) == Return(Context, <<>>, <<>>)

\* Context* subtest(unsigned int tests, const std::string& message)
subtest_planned(tests, message) == plan(Context, tests)

\* The back-reference of a new child to the Context c it is derived from.
Link(c, message) == [ctx |-> c, message |-> message, live |-> TRUE]

\* The child records its summary on its parent through a live
\* back-reference: one ok(child.summary(), message) on the parent.
inject(link, child) ==
    IF link.live THEN ok(link.ctx, summary(child), link.message)
    ELSE Return(link.ctx, <<>>, <<>>)

\* done_testing() on a child: the session is closed as any other and, if
\* that succeeded, the summary is recorded on the parent.  The outcome on the
\* child, the outcome on the parent and the back-reference afterwards.
close(child, link) ==
    LET r == done_testing(child)
    IN  IF r.err # "none"
        THEN [child |-> r, parent |-> Return(link.ctx, <<>>, <<>>), live |-> link.live]
        ELSE [child |-> r, parent |-> inject(link, r.ctx), live |-> FALSE]

\* ~Context(void): a session not yet finished is closed as by done_testing();
\* a finished one is left as it is.
destructor(c) ==
    IF c.finished THEN Return(c, <<>>, <<>>) ELSE done_testing(c)

\* The end of the scope of a child: a child not yet finished is closed as by
\* done_testing(), and a summary not yet recorded is recorded now.
destroy(child, link) ==
    LET r == destructor(child)
    IN  [child |-> r, parent |-> inject(link, r.ctx), live |-> FALSE]

\* The nesting depth of the active Context.
Depth == Len(parents)

\* A call on the active Context of a program with subtests: its lines are
\* printed at the depth of that Context.
SubCall(r) ==
    /\ r.ctx.run <= MaxRun
    /\ Len(out) + Len(r.lines) <= MaxSubOut
    /\ TAPP' = r.ctx
    /\ out' = out \o Indent(Depth, r.lines)
    /\ UNCHANGED parents

\* subtest(...) of the procedural interface derives a child from the active
\* Context (one still open) and makes it the active one.
Derive(message, r) ==
    /\ Depth < MaxDepth
    /\ ~TAPP.finished
    /\ Len(out) + Len(r.lines) <= MaxSubOut
    /\ parents' = Append(parents, Link(TAPP, message))
    /\ TAPP' = r.ctx
    /\ out' = out \o Indent(Depth + 1, r.lines)

Sub_subtest == \E m \in SubtestMessages : Derive(m, subtest(m))

Sub_subtest_planned ==
    \E n \in 0..MaxTests, m \in SubtestMessages : Derive(m, subtest_planned(n, m))

\* done_testing() on the active Context, a child or not.
Sub_done_testing ==
    IF parents = <<>> THEN SubCall(done_testing(TAPP))
    ELSE LET c == close(TAPP, parents[Depth]) IN
         /\ c.parent.ctx.run <= MaxRun
         /\ Len(out) + Len(c.child.lines) + Len(c.parent.lines) <= MaxSubOut
         /\ TAPP' = c.child.ctx
         /\ parents' = [parents EXCEPT ![Depth] =
                            [@ EXCEPT !.ctx = c.parent.ctx, !.live = c.live]]
         /\ out' = out \o Indent(Depth, c.child.lines)
                       \o Indent(Depth - 1, c.parent.lines)

\* The scope of the innermost subtest ends, at any point of its body: the
\* child is destroyed and its parent is the active Context again.
Sub_end ==
    /\ parents # <<>>
    /\ LET c == destroy(TAPP, parents[Depth]) IN
        /\ c.parent.ctx.run <= MaxRun
        /\ Len(out) + Len(c.child.lines) + Len(c.parent.lines) <= MaxSubOut
        /\ TAPP' = c.parent.ctx
        /\ parents' = SubSeq(parents, 1, Depth - 1)
        /\ out' = out \o Indent(Depth, c.child.lines)
                      \o Indent(Depth - 1, c.parent.lines)

Sub_plan == \E n \in 0..MaxTests : SubCall(plan(TAPP, n))

Sub_ok == \E b \in BOOLEAN : SubCall(ok(TAPP, b, "m"))

Sub_BAIL == SubCall(BAIL(TAPP, ""))

Sub_diag == SubCall(diag(TAPP, "m"))

Sub_like == \E b \in BOOLEAN : SubCall(like(TAPP, b, "m"))

Sub_unlike == \E b \in BOOLEAN : SubCall(unlike(TAPP, b, "m"))

Sub_lives == \E o \in Outcomes : SubCall(lives(TAPP, o, "m"))

Sub_throws == \E o \in Outcomes : SubCall(throws(TAPP, o, "m"))

Sub_throws_like ==
    \E o \in Outcomes, d \in BOOLEAN : SubCall(throws_like(TAPP, o, d, "m"))

NextSub ==
    \/ Sub_subtest
    \/ Sub_subtest_planned
    \/ Sub_done_testing
    \/ Sub_end
    \/ Sub_plan
    \/ Sub_ok
    \/ Sub_BAIL
    \/ Sub_diag
    \/ Sub_like
    \/ Sub_unlike
    \/ Sub_lives
    \/ Sub_throws
    \/ Sub_throws_like

SpecSub == Init /\ [][NextSub]_vars

----------------------------------------------------------------------------
\* Reading the output device: the kind of a line is decided by its first piece.
IsTestLine(l) == l[1] \in {"ok ", "not ok "}
IsCountLine(l) == l[1] \in {"1..", "1..0"}
IsDiagLine(l) == l[1] = "# "
IsBailLine(l) == l[1] = "Bail out!"

\* A test line carries a TODO directive when "# TODO " follows its message.
HasTODO(l) == IsTestLine(l) /\ Len(l) = 7 /\ l[6] = "# TODO "
TodoReason(l) == l[7]

\* The positions of the test lines among lines, and of those tagged "ok".
TestLines(lines) == {i \in DOMAIN lines : IsTestLine(lines[i])}
OkLines(lines) == {i \in TestLines(lines) : lines[i][1] = "ok "}

\* The lines a step appended to the device.
Appended == SubSeq(out', Len(out) + 1, Len(out'))

\* The calls that record assertions, with every argument of the model.
AssertionCalls(c) ==
    {ok(c, b, m) : b \in BOOLEAN, m \in Messages}
    \cup {nok(c, b, m) : b \in BOOLEAN, m \in Messages}
    \cup {pass(c, m) : m \in Messages}
    \cup {fail(c, m) : m \in Messages}
    \cup {is(c, g, e, m, st, su) :
            g \in Gots, e \in Expecteds, m \in Messages, st \in BOOLEAN, su \in BOOLEAN}
    \cup {isnt(c, g, e, m, st, su) :
            g \in Gots, e \in Expecteds, m \in Messages, st \in BOOLEAN, su \in BOOLEAN}
    \cup {SKIP(c, s) : s \in Reasons}
    \cup {SKIP_many(c, n, s) : n \in 0..MaxSkip, s \in Reasons}

\* The plan requests, numeric and skip-all.
PlanCalls(c) ==
    {plan(c, n) : n \in 0..MaxTests} \cup {plan_skip_all(c, s) : s \in Reasons}

\* Every state-changing call: all but diag and summary.
StateChangingCalls(c) ==
    PlanCalls(c) \cup AssertionCalls(c)
    \cup {TODO(c, s) : s \in Reasons}
    \cup {done_testing(c)}
    \cup {BAIL(c, s) : s \in Reasons}

----------------------------------------------------------------------------
\* C1: on a finished session every state-changing operation (plan in both
\* variants, ok, nok, pass, fail, is, isnt, TODO, SKIP single and counted for
\* every count, done_testing, BAIL) raises Finished.
C1_FinishedRaisesFinished ==
    TAPP.finished => \A r \in StateChangingCalls(TAPP) : r.err = "Finished"

\* C2: a plan request (numeric or skip-all) on a session whose plan is set
\* raises Planned and prints no second count line, and the plan stays what it
\* was first set to.
C2_SecondPlanRaisesPlanned ==
    [][TAPP.have_plan =>
        /\ \A r \in PlanCalls(TAPP) : r.err = "Planned" /\ r.lines = <<>>
        /\ TAPP'.have_plan /\ TAPP'.planned = TAPP.planned]_vars

\* C3: a plan request (numeric or skip-all) on an unplanned, unfinished
\* session that has recorded an assertion raises LatePlan and prints no
\* count line.
C3_LatePlanRaisesLatePlan ==
    (~TAPP.have_plan /\ ~TAPP.finished /\ TAPP.run > 0) =>
        \A r \in PlanCalls(TAPP) : r.err = "LatePlan" /\ r.lines = <<>>

\* C4: once finished is true, every line appended to the device is a
\* diagnostic line: no count, assertion or abort line is appended.
C4_OnlyDiagAfterFinished ==
    [][TAPP.finished =>
        /\ SubSeq(out', 1, Len(out)) = out
        /\ \A i \in DOMAIN Appended : IsDiagLine(Appended[i])]_vars

C6_SummaryImpliesAllGood ==
    summary(TAPP) => (TAPP.good = TAPP.run /\ OkLines(out) = TestLines(out))

\* C7: with a plan of n set, summary() is false while fewer than n
\* assertions have been run, even if all of them succeeded.
C7_UnmetPlanIsNotSuccess ==
    (TAPP.have_plan
        /\ (TAPP.run < TAPP.planned \/ Cardinality(TestLines(out)) < TAPP.planned))
    => ~summary(TAPP)

\* A plan of 2 with one assertion run, and that one successful.
C7_Witness ==
    /\ TAPP.have_plan /\ TAPP.planned = 2
    /\ TAPP.run = 1 /\ TAPP.good = 1
    /\ OkLines(out) = TestLines(out) /\ TestLines(out) # {}

\* C8: done_testing on an unfinished session without a plan prints exactly
\* one count line "1..N", N the number of test lines printed so far; with a
\* plan it prints no count line; and a count line that is followed by a test
\* line is never one of done_testing: it is the plan printed up front.
C8_DoneTestingCountLine ==
    /\ (~TAPP.finished /\ ~TAPP.have_plan) =>
        /\ done_testing(TAPP).err = "none"
        /\ done_testing(TAPP).lines =
            << <<"1..", to_string(Cardinality(TestLines(out)))>> >>
    /\ (~TAPP.finished /\ TAPP.have_plan) =>
        /\ done_testing(TAPP).err = "none"
        /\ \A i \in DOMAIN done_testing(TAPP).lines :
            ~IsCountLine(done_testing(TAPP).lines[i])
    /\ \A i \in DOMAIN out, j \in DOMAIN out :
        (i < j /\ IsCountLine(out[i]) /\ IsTestLine(out[j])) =>
            (TAPP.have_plan /\ \A k \in 1..i : ~IsTestLine(out[k]))

\* Two assertions recorded without a plan, then closed by done_testing.
C8_Witness ==
    /\ TAPP.finished /\ ~TAPP.have_plan
    /\ Len(out) = 3
    /\ TestLines(out) = {1, 2}
    /\ out[3] = <<"1..", "2">>

\* C9: a pending TODO directive is attached to exactly the next test line
\* printed, by whichever operation and whether it passes or fails, and is
\* cleared by it; a step that prints no test line leaves it pending unless
\* it is a call of TODO (which prints nothing and changes nothing else).
C9_TodoAttachedToNextTest ==
    [][LET tests == TestLines(Appended) IN
        /\ \A i \in tests :
            /\ HasTODO(Appended[i]) <=>
                (TAPP.todo # "" /\ \A k \in tests : i <= k)
            /\ HasTODO(Appended[i]) => TodoReason(Appended[i]) = TAPP.todo
        /\ tests # {} => TAPP'.todo = ""
        /\ tests = {} =>
            \/ TAPP'.todo = TAPP.todo
            \/ Appended = <<>> /\ TAPP' = [TAPP EXCEPT !.todo = TAPP'.todo]]_vars

\* A failing test line carrying the directive, and the next one without it.
C9_Witness ==
    /\ Len(out) >= 2
    /\ HasTODO(out[1]) /\ out[1][1] = "not ok " /\ TodoReason(out[1]) = "r"
    /\ IsTestLine(out[2]) /\ ~HasTODO(out[2])

\* C10: a failing assertion marked TODO counts as successful for summary():
\* a session whose only failures were marked TODO and whose plan, if any, is
\* met reports summary() true.
C10_TodoFailureCountsAsSuccess ==
    (/\ \A i \in TestLines(out) : out[i][1] = "not ok " => HasTODO(out[i])
     /\ TAPP.have_plan => TAPP.planned = TAPP.run)
    => summary(TAPP)

----------------------------------------------------------------------------
\* The test line SKIP(n, reason) is to print for its i-th skipped test when
\* run tests came before: "ok", the running number, and the SKIP marker
\* with the reason and "i/n".
SkipLine(run, i, n, reason) ==
    <<"ok ", to_string(run + i), " - ",
      "# SKIP " \o reason \o (IF reason = "" THEN "" ELSE " ")
               \o to_string(i) \o "/" \o to_string(n)>>

\* C15: SKIP(n, reason) on an unfinished session records exactly n "ok" test
\* lines with the SKIP marker, the i-th annotated "i/n", in increasing order
\* (the first also carries a pending TODO directive), and adds n to run and
\* to good.
C15_SkipManyRecordsN ==
    ~TAPP.finished =>
        \A n \in 0..MaxSkip, s \in Reasons :
            LET r == SKIP_many(TAPP, n, s) IN
            /\ r.err = "none"
            /\ Len(r.lines) = n
            /\ \A i \in 1..n :
                /\ IsTestLine(r.lines[i])
                /\ SubSeq(r.lines[i], 1, 4) = SkipLine(TAPP.run, i, n, s)
                /\ HasTODO(r.lines[i]) <=> (i = 1 /\ TAPP.todo # "")
            /\ r.ctx.run = TAPP.run + n
            /\ r.ctx.good = TAPP.good + n

\* SKIP(2, "r") has printed its two lines.
C15_Witness ==
    /\ Len(out) = 2
    /\ out[1] = <<"ok ", "1", " - ", "# SKIP r 1/2">>
    /\ out[2] = <<"ok ", "2", " - ", "# SKIP r 2/2">>
    /\ TAPP.run = 2 /\ TAPP.good = 2

\* C16: BAIL on an unfinished session prints exactly one abort line,
\* "Bail out!" followed by " <reason>" only for a non-empty reason, sets
\* finished, prints no count line, leaves plan, run and good unchanged and
\* returns normally.
C16_BailOneAbortLine ==
    ~TAPP.finished =>
        \A s \in Reasons :
            LET r == BAIL(TAPP, s) IN
            /\ r.err = "none"
            /\ r.lines = << IF s = "" THEN <<"Bail out!">> ELSE <<"Bail out!", " ", s>> >>
            /\ IsBailLine(r.lines[1]) /\ ~IsCountLine(r.lines[1])
            /\ r.ctx.finished
            /\ r.ctx.planned = TAPP.planned /\ r.ctx.have_plan = TAPP.have_plan
            /\ r.ctx.run = TAPP.run /\ r.ctx.good = TAPP.good

\* BAIL("r") has closed a session that had recorded an assertion.
C16_Witness ==
    /\ Len(out) = 2
    /\ IsTestLine(out[1])
    /\ out[2] = <<"Bail out!", " ", "r">>
    /\ TAPP.finished /\ TAPP.run = 1 /\ ~TAPP.have_plan

\* C17: diag succeeds in every state of the session, also after finished,
\* prints exactly one diagnostic line and leaves plan, run, good, the pending
\* TODO directive and finished unchanged.
C17_DiagChangesNothing ==
    \A m \in Messages :
        LET r == diag(TAPP, m) IN
        /\ r.err = "none"
        /\ Len(r.lines) = 1 /\ IsDiagLine(r.lines[1]) /\ r.lines[1] = <<"# ", m>>
        /\ r.ctx = TAPP

\* diag("m") has printed after the session was closed with a TODO pending.
C17_Witness ==
    /\ TAPP.finished /\ TAPP.todo = "r"
    /\ Len(out) = 2
    /\ IsCountLine(out[1])
    /\ out[2] = <<"# ", "m">>

OtherCalls(c) ==
    PlanCalls(c)
    \cup {TODO(c, s) : s \in Reasons}
    \cup {done_testing(c)}
    \cup {BAIL(c, s) : s \in Reasons}
    \cup {diag(c, m) : m \in Messages}
    \cup {Return(c, <<>>, <<summary(c)>>)}

\* C20: ok(b, msg) on an unfinished session returns b, for b true and b
\* false alike; no assertion operation raises an error on an unfinished
\* session, whatever its outcome; and the only errors raised are Planned,
\* Finished and LatePlan, each only on the misuse it names.
C20_FailureIsNotAnError ==
    LET OnlyOnMisuse(r) ==
            /\ r.err \in {"none"} \cup Exceptions
            /\ r.err = "Finished" => TAPP.finished
            /\ r.err = "Planned" => TAPP.have_plan
            /\ r.err = "LatePlan" => TAPP.run > 0
    IN  /\ ~TAPP.finished =>
            \A b \in BOOLEAN, m \in Messages :
                ok(TAPP, b, m).err = "none" /\ ok(TAPP, b, m).ret = <<b>>
        /\ \A r \in AssertionCalls(TAPP) :
            /\ ~TAPP.finished => r.err = "none"
            /\ OnlyOnMisuse(r)
        /\ \A r \in OtherCalls(TAPP) : OnlyOnMisuse(r)

\* A failed assertion has returned and the session is still open.
C20_Witness ==
    /\ ~TAPP.finished
    /\ Len(out) = 2
    /\ out[1][1] = "not ok " /\ out[2][1] = "ok "

----------------------------------------------------------------------------
\* Reading the output of a program with subtests.

\* The number of indentation units a line starts with, and the line without
\* them.
RECURSIVE DepthOf(_)
DepthOf(l) ==
    IF l # <<>> /\ l[1] = IndentUnit THEN 1 + DepthOf(Tail(l)) ELSE 0

Unindented(l) == SubSeq(l, DepthOf(l) + 1, Len(l))

\* A step completes the innermost subtest when it uses up the live
\* back-reference of the active child: by done_testing() on the child, or by
\* the end of its scope.
CompletesSubtest ==
    /\ Depth > 0
    /\ parents[Depth].live
    /\ Len(parents') < Depth \/ ~parents'[Depth].live

\* The parent of the active child before the step, and that Context after it.
ParentBefore == parents[Depth].ctx
ParentAfter == IF Len(parents') < Depth THEN TAPP' ELSE parents'[Depth].ctx

C12_NoSecondInjection ==
    [][(Depth > 0 /\ ~parents[Depth].live /\ Len(parents') < Depth) =>
        /\ Appended = <<>>
        /\ TAPP' = parents[Depth].ctx
        /\ parents' = SubSeq(parents, 1, Depth - 1)]_vars

\* A child closed by done_testing(), its summary recorded on the root, whose
\* scope has not ended yet.
C12_Witness ==
    /\ Depth = 1
    /\ TAPP.finished /\ TAPP.run = 1
    /\ ~parents[1].live
    /\ parents[1].ctx.run = 1
    /\ out = << <<IndentUnit, "ok ", "1", " - ", "m">>,
                <<IndentUnit, "1..", "1">>,
                <<"ok ", "1", " - ", "s">> >>

\* The summary of the child of back-reference k is on the device: a test line
\* at the parent's depth with the parent's latest number and the subtest's
\* message.
Injected(k) ==
    \E i \in DOMAIN out :
        /\ DepthOf(out[i]) = k - 1
        /\ IsTestLine(Unindented(out[i]))
        /\ Unindented(out[i])[2] = to_string(parents[k].ctx.run)
        /\ Unindented(out[i])[4] = parents[k].message

IsLine(l) == l # <<>> /\ (IsCountLine(l) \/ IsTestLine(l) \/ IsDiagLine(l) \/ IsBailLine(l))

EverySingleAssertion(c, P(_)) ==
    /\ \A b \in BOOLEAN, m \in Messages :
        /\ P(ok(c, b, m))
        /\ P(nok(c, b, m))
        /\ P(like(c, b, m))
        /\ P(unlike(c, b, m))
    /\ \A m \in Messages : P(pass(c, m)) /\ P(fail(c, m))
    /\ \A g \in Gots, e \in Expecteds, m \in Messages, st \in BOOLEAN, su \in BOOLEAN :
        /\ P(is(c, g, e, m, st, su))
        /\ P(isnt(c, g, e, m, st, su))
    /\ \A s \in Reasons : P(SKIP(c, s))
    /\ \A o \in Outcomes, m \in Messages :
        /\ P(lives(c, o, m))
        /\ P(throws(c, o, m))
        /\ \A d \in BOOLEAN : P(throws_like(c, o, d, m))

\* The outcome r of a call on c is one assertion: no error, one test line
\* with the next number, diagnostics for the rest, and run one higher.
OneAssertion(c, r) ==
    /\ r.err = "none"
    /\ Cardinality(TestLines(r.lines)) = 1
    /\ \A i \in DOMAIN r.lines :
        IF IsTestLine(r.lines[i]) THEN r.lines[i][2] = to_string(c.run + 1)
        ELSE IsDiagLine(r.lines[i])
    /\ r.ctx.run = c.run + 1

\* C19: on an unfinished session, with or without a pending TODO directive,
\* every call of ok, nok, pass, fail, is, isnt, like, unlike, lives, throws,
\* throws_like and single-test SKIP prints exactly one test line and raises
\* run by exactly 1, whatever diagnostics it prints besides; so does, on the
\* parent, the completion of a subtest by done_testing() or by the end of its
\* scope; and a session with a plan of k that has run k tests is closed
\* without a complaint about the plan.
C19_OneLineOneRunPerAssertion ==
    /\ ~TAPP.finished =>
        \A td \in Reasons :
            LET c == [TAPP EXCEPT !.todo = td]
                P(r) == OneAssertion(c, r)
            IN  EverySingleAssertion(c, P)
    /\ (Depth > 0 /\ parents[Depth].live) =>
        /\ OneAssertion(parents[Depth].ctx, destroy(TAPP, parents[Depth]).parent)
        /\ ~TAPP.finished =>
            OneAssertion(parents[Depth].ctx, close(TAPP, parents[Depth]).parent)
    /\ (~TAPP.finished /\ TAPP.have_plan /\ TAPP.planned = TAPP.run) =>
        done_testing(TAPP).lines = <<>>

\* A plan of 2 met by two assertions, the second one a failed throws_like
\* with its diagnostic: two test lines, run is 2.
C19_Witness ==
    /\ parents = <<>>
    /\ TAPP.have_plan /\ TAPP.planned = 2 /\ TAPP.run = 2
    /\ Len(out) = 4
    /\ IsCountLine(out[1])
    /\ out[2][1] = "ok " /\ out[2][2] = "1"
    /\ out[3][1] = "not ok " /\ out[3][2] = "2"
    /\ out[4] = <<"# ", "different error kind occurred">>

----------------------------------------------------------------------------
\* C21: in the output of a session no count line stands between two test
\* lines: a count line comes before the first test line or after the last.
C21_CountLineNotBetweenTests ==
    \A i \in DOMAIN out, j \in DOMAIN out, k \in DOMAIN out :
        (i < j /\ j < k /\ IsTestLine(out[i]) /\ IsTestLine(out[k]))
            => ~IsCountLine(out[j])

\* A session without a plan ran two tests and was closed: the count line
\* trails the last test line.
C21_Witness ==
    /\ Len(out) = 3
    /\ IsTestLine(out[1]) /\ IsTestLine(out[2])
    /\ out[3] = <<"1..", "2">>
    /\ TAPP.finished

\* The lines a step that ends the scope of a child prints for the child
\* itself: all it appends but the line recording the summary on the parent.
OwnLinesAtEnd ==
    SubSeq(Appended, 1, Len(Appended) - (IF parents[Depth].live THEN 1 ELSE 0))

\* C22: a session that reaches the end of its scope unfinished is closed
\* exactly as by done_testing(), printing the count line "1..run" if it has
\* no plan; a session that is already finished prints nothing when its scope
\* ends, and in neither case is an error raised.
C22_EndOfScopeFinalizes ==
    [][Len(parents') < Depth =>
        /\ destructor(TAPP).err = "none"
        /\ IF TAPP.finished
           THEN OwnLinesAtEnd = <<>>
           ELSE /\ OwnLinesAtEnd = Indent(Depth, done_testing(TAPP).lines)
                /\ ~TAPP.have_plan =>
                    OwnLinesAtEnd = Indent(Depth, << <<"1..", to_string(TAPP.run)>> >>)
                /\ TAPP.have_plan => \A i \in DOMAIN OwnLinesAtEnd :
                                        ~IsCountLine(Unindented(OwnLinesAtEnd[i]))]_vars

\* A child without a plan failed its only test and was left without
\* done_testing(): its count line "1..1" was printed when its scope ended.
C22_Witness ==
    /\ parents = <<>>
    /\ out = << <<IndentUnit, "not ok ", "1", " - ", "m">>,
                <<IndentUnit, "1..", "1">>,
                <<"not ok ", "1", " - ", "s">> >>
    /\ ~TAPP.finished

\* C23: throws and throws_like on an unfinished session record exactly one
\* assertion, never pass on an error of the action, and succeed exactly when
\* the action raised an error of kind E whose description satisfies the check
\* (no check for throws): no error is a failure, an error of another kind is
\* a failure, kind E with a description that fails the check is a failure.
C23_ThrowsClassification ==
    ~TAPP.finished =>
        \A o \in Outcomes, m \in Messages :
            /\ \A d \in BOOLEAN :
                LET r == throws_like(TAPP, o, d, m)
                    success == IF o = "returns" THEN FALSE
                               ELSE IF o = "raises other" THEN FALSE
                               ELSE d
                IN  /\ OneAssertion(TAPP, r)
                    /\ r.ret = <<success>>
                    /\ r.lines[1][1] = (IF success THEN "ok " ELSE "not ok ")
                    /\ r.ctx.good = TAPP.good + (IF success THEN 1 ELSE 0)
                    /\ success => Len(r.lines) = 1
            /\ LET r == throws(TAPP, o, m)
               IN  /\ OneAssertion(TAPP, r)
                   /\ r.ret = <<o = "raises E">>
                   /\ r.lines[1][1] = (IF o = "raises E" THEN "ok " ELSE "not ok ")

\* An action that raised no error was given to throws: one failed test and
\* the reason.
C23_Witness ==
    /\ parents = <<>>
    /\ out = << <<"not ok ", "1", " - ", "m">>,
                <<"# ", "expected an error">> >>
    /\ TAPP.run = 1 /\ TAPP.good = 0 /\ ~TAPP.finished

\* Every Context of the program: the active one and those it is nested in.
Sessions == {TAPP} \cup {parents[k].ctx : k \in DOMAIN parents}

\* C24: good <= run in every session of the program in every reachable
\* state, whatever calls succeeded or failed on it and whatever summaries of
\* subtests were recorded on it; and no counted SKIP on the active session
\* breaks it.
C24_GoodAtMostRun ==
    /\ \A c \in Sessions : c.good <= c.run
    /\ \A n \in 0..MaxSkip :
        LET c == SKIP_many(TAPP, n, "r").ctx IN c.good <= c.run

\* The root failed a test and then had the success of a subtest recorded.
C24_Witness ==
    /\ parents = <<>>
    /\ TAPP.run = 2 /\ TAPP.good = 1
    /\ Len(out) = 3
    /\ out[1] = <<"not ok ", "1", " - ", "m">>
    /\ DepthOf(out[2]) = 1
    /\ out[3] = <<"ok ", "2", " - ", "s">>

\* C25: finished never goes back from true to false, whatever is called on
\* the session and whether the call succeeds or raises.
C25_FinishedStaysFinished ==
    [][TAPP.finished => TAPP'.finished]_vars

\* A session closed by done_testing() on which diag() was called afterwards.
C25_Witness ==
    /\ TAPP.finished
    /\ out = << <<"ok ", "1", " - ", "m">>, <<"1..", "1">>, <<"# ", "m">> >>

\* C26: done_testing() on an unfinished session with a plan prints exactly
\* one diagnostic, naming planned and run, if planned # run, and nothing if
\* they are equal (a failed test does not matter); either way it raises
\* nothing and sets finished.
C26_MismatchDiagnostic ==
    (~TAPP.finished /\ TAPP.have_plan) =>
        LET r == done_testing(TAPP)
        IN  /\ r.err = "none"
            /\ r.ctx.finished
            /\ r.lines =
                IF TAPP.planned # TAPP.run
                THEN << <<"# ", "Looks like you planned " \o ToString(TAPP.planned)
                               \o " tests but ran " \o ToString(TAPP.run)>> >>
                ELSE <<>>

\* A plan of 2, one test passed and one failed, closed by done_testing():
\* nothing was printed after the two test lines.
C26_Witness ==
    /\ TAPP.finished /\ TAPP.have_plan
    /\ TAPP.planned = 2 /\ TAPP.run = 2 /\ TAPP.good = 1
    /\ out = << <<"1..", "2">>, <<"ok ", "1", " - ", "m">>,
                <<"not ok ", "2", " - ", "m">> >>

\* Two different non-empty reasons for TODO.
TodoReasons == {"r", "q"}

\* The TODO directives on a line.
Directives(l) == {i \in DOMAIN l : l[i] = "# TODO "}

\* C27: on an unfinished session, after TODO(r1) then TODO("") the next test
\* line carries no TODO directive; after TODO(r1) then TODO(r2), with no
\* assertion in between, the next test line carries exactly one directive,
\* with reason r2.
C27_TodoCancelledOrReplaced ==
    ~TAPP.finished =>
        \A r1 \in TodoReasons, r2 \in TodoReasons, b \in BOOLEAN, m \in Messages :
            LET c1 == TODO(TAPP, r1).ctx
                cancelled == ok(TODO(c1, "").ctx, b, m)
                replaced == ok(TODO(c1, r2).ctx, b, m)
            IN  /\ TODO(c1, "").err = "none" /\ TODO(c1, r2).err = "none"
                /\ Len(cancelled.lines) = 1
                /\ Directives(cancelled.lines[1]) = {}
                /\ Len(replaced.lines) = 1
                /\ Cardinality(Directives(replaced.lines[1])) = 1
                /\ HasTODO(replaced.lines[1])
                /\ TodoReason(replaced.lines[1]) = r2
                /\ replaced.ctx.todo = ""

\* A mark is pending on a session that has printed a test line, after two
\* calls of TODO in a row or one.
C27_Witness ==
    /\ ~TAPP.finished
    /\ TAPP.todo = "r"
    /\ TAPP.run = 1
    /\ out = << <<"ok ", "1", " - ", "m">> >>

\* The outcome r of is / isnt for values that may not be stringifiable (st:
\* got is, su: the other value is) against the outcome ref of the same call
\* for values that both are: same value returned, same Context, same test
\* line; diagnostics only after a failure, and then the headline (if there
\* is a message), the line of got iff st and the line of the other value iff
\* su, as ref has them.
SameButForDiagnostics(r, ref, message, st, su) ==
    LET head == IF message # "" THEN 1 ELSE 0
    IN  /\ r.err = ref.err /\ r.ret = ref.ret /\ r.ctx = ref.ctx
        /\ r.lines[1] = ref.lines[1]
        /\ \A i \in 2..Len(r.lines) : IsDiagLine(r.lines[i])
        /\ r.ret = <<TRUE>> => Len(r.lines) = 1 /\ Len(ref.lines) = 1
        /\ r.ret = <<FALSE>> =>
            /\ Len(ref.lines) = 1 + head + 2
            /\ r.lines = <<ref.lines[1]>>
                         \o (IF head = 1 THEN <<ref.lines[2]>> ELSE <<>>)
                         \o (IF st THEN <<ref.lines[2 + head]>> ELSE <<>>)
                         \o (IF su THEN <<ref.lines[3 + head]>> ELSE <<>>)

\* C28: on an unfinished session the outcome of is and isnt does not depend
\* on whether the values can be stringified: the value returned (that of the
\* comparison, negated for isnt), run, good and the test line are the same;
\* stringifiability only decides which of the "Got" and "Expected"
\* ("Unexpected") diagnostics are printed, and they are printed only after a
\* failure.
C28_OutcomeIndependentOfStringifiable ==
    ~TAPP.finished =>
        \A e \in Expecteds, m \in Messages :
            LET is2 == is(TAPP, 1, e, m, TRUE, TRUE)
                isnt2 == isnt(TAPP, 1, e, m, TRUE, TRUE)
            IN  /\ is2.ret = <<1 = e>>
                /\ isnt2.ret = <<1 # e>>
                /\ \A st \in BOOLEAN, su \in BOOLEAN :
                    LET is1 == is(TAPP, 1, e, m, st, su)
                        isnt1 == isnt(TAPP, 1, e, m, st, su)
                    IN  /\ SameButForDiagnostics(is1, is2, m, st, su)
                        /\ SameButForDiagnostics(isnt1, isnt2, m, st, su)

\* is() failed on a got that can be stringified and an expected value that
\* cannot: the headline and the "Got" line only.
C28_Witness ==
    /\ TAPP.run = 1 /\ TAPP.good = 0
    /\ out = << <<"not ok ", "1", " - ", "m">>,
                <<"# ", "Test 'm' failed:">>,
                <<"# ", "       Got: 1">> >>

\* C29 as stated: every line of a child is on the device before the line
\* that records its summary on the parent, so a child whose summary is
\* recorded prints nothing more.
C29_AllChildLinesBeforeSummary ==
    [][(Depth > 0 /\ ~parents[Depth].live) => Appended = <<>>]_vars

\* C29, amended: the device is append-only, so what the parent printed
\* before deriving a child stays before the child's lines; until a child
\* completes, every line printed is the child's; the step that completes it
\* prints the child's closing lines (the trailing count line, the diagnostic
\* of an unmet plan) first and the line recording the summary last, at the
\* parent's depth and with the parent's next number.  Only what a child
\* prints after its own done_testing() comes after that line.
C29_ChildLinesBeforeSummary ==
    [][/\ SubSeq(out', 1, Len(out)) = out
       /\ (Depth > 0 /\ parents[Depth].live) =>
            LET n == Len(Appended)
            IN  IF CompletesSubtest
                THEN /\ n >= 1
                     /\ \A i \in 1..(n - 1) :
                            /\ DepthOf(Appended[i]) = Depth
                            /\ ~IsTestLine(Unindented(Appended[i]))
                     /\ DepthOf(Appended[n]) = Depth - 1
                     /\ IsTestLine(Unindented(Appended[n]))
                     /\ Unindented(Appended[n])[2] = to_string(ParentBefore.run + 1)
                ELSE \A i \in 1..n : DepthOf(Appended[i]) >= Depth]_vars

\* The root ran a test, then a subtest ran one and was left: the root's
\* line, the child's test line and count line, and the summary as the
\* root's test 2.
C29_Witness ==
    /\ parents = <<>>
    /\ out = << <<"ok ", "1", " - ", "m">>,
                <<IndentUnit, "ok ", "1", " - ", "m">>,
                <<IndentUnit, "1..", "1">>,
                <<"ok ", "2", " - ", "s">> >>

\* On the device, run is the number of test lines, good the number of those
\* tagged "ok", and the k-th test line carries the number k.
CountersMatchOutput ==
    /\ TAPP.run = Cardinality(TestLines(out))
    /\ TAPP.good = Cardinality(OkLines(out))
    /\ \A i \in TestLines(out) :
        out[i][2] = to_string(Cardinality({j \in TestLines(out) : j <= i}))

\* C30: after any sequence of calls on a session, run is the number of test
\* lines it has printed and good the number of those tagged "ok"; the k-th
\* test line carries the number k, so the numbers run from 1 without gap or
\* repeat; and no call makes run or good smaller.
C30_CountersMatchTestLines ==
    [][/\ CountersMatchOutput
       /\ CountersMatchOutput'
       /\ TAPP'.run >= TAPP.run
       /\ TAPP'.good >= TAPP.good]_vars

\* A passed test, a diagnostic and a failed test: run is 2, good is 1.
C30_Witness ==
    /\ TAPP.run = 2 /\ TAPP.good = 1
    /\ out = << <<"ok ", "1", " - ", "m">>, <<"# ", "m">>,
                <<"not ok ", "2", " - ", "m">> >>

----------------------------------------------------------------------------
\* P holds of the outcome of every call of the interface on c that can raise
\* an error or change the session, with every argument of the model.
EveryCall(c, P(_)) ==
    /\ \A n \in 0..MaxTests : P(plan(c, n))
    /\ \A s \in Reasons :
        /\ P(plan_skip_all(c, s))
        /\ P(TODO(c, s))
        /\ P(SKIP(c, s))
        /\ P(BAIL(c, s))
        /\ \A n \in 0..MaxSkip : P(SKIP_many(c, n, s))
    /\ P(done_testing(c))
    /\ \A b \in BOOLEAN, m \in Messages : P(ok(c, b, m)) /\ P(nok(c, b, m))
    /\ \A m \in Messages : P(pass(c, m)) /\ P(fail(c, m)) /\ P(diag(c, m))
    /\ \A g \in Gots, e \in Expecteds, m \in Messages, st \in BOOLEAN, su \in BOOLEAN :
        /\ P(is(c, g, e, m, st, su))
        /\ P(isnt(c, g, e, m, st, su))

\* C31: at every moment of a session, a call that raises Planned, Finished
\* or LatePlan leaves the session (planned, have_plan, run, good, the pending
\* TODO directive, finished) exactly as it was before the call and prints no
\* line.
C31_RaisingCallChangesNothing ==
    [](LET Untouched(r) == r.err \in Exceptions => r.ctx = TAPP /\ r.lines = <<>>
       IN  EveryCall(TAPP, Untouched))

\* A planned session that ran its test, has a directive pending and is
\* finished: a further plan raises Planned, a further assertion Finished.
C31_Witness ==
    /\ TAPP = [planned |-> 1, run |-> 1, good |-> 1, todo |-> "r",
               have_plan |-> TRUE, finished |-> TRUE]
    /\ out = << <<"1..", "1">>, <<"ok ", "1", " - ", "m">> >>
    /\ plan(TAPP, 1).err = "Planned"
    /\ ok(TAPP, TRUE, "m").err = "Finished"
    /\ SKIP_many(TAPP, 2, "r").err = "Finished"

====
